---- MODULE Spec2Model ----
(***************************************************************************)
(* Model of claude_slack_bot: the per-session job queue (session.py,       *)
(* SessionQueue), the session store (session.py, SessionStore) and the     *)
(* message dispatch / job body of bot.py, running on one asyncio event     *)
(* loop.  One action is one uninterrupted run of a task between two        *)
(* suspension points: asyncio switches tasks only at an await that really  *)
(* suspends (the Slack calls and the agent call).  Queue.put and Queue.get *)
(* on an unbounded, non-empty queue never suspend.                         *)
(***************************************************************************)
EXTENDS Integers, Sequences, FiniteSets, TLC

\* ------------------------------------------------------------------ bounds
\* job ids the model hands out, and how many of them may be Slack messages
MaxJobs == 4
MaxMsgs == 3
MaxEvents == 2
\* the longest agent output and the longest agent message stream
MaxOutput == 4
MaxStream == 3

JobIds == 1..MaxJobs

\* ------------------------------------------------------- program constants
Channels == {"C1"}
Threads == {"t1", "t2"}
Keys == Channels \X Threads

\* the keys SessionStore is called with when it is exercised on its own
StoreChannels == {"C1", "C2"}
StoreKeys == StoreChannels \X Threads
NoKey == <<"", "">>

Users == {"U1", "U2"}
allowed_user_ids == {"U1"}

\* strings that the code takes apart are sequences of characters
Mention == <<"<", "@", "B", ">">>
Prompts == {<<>>, <<"p">>}
Texts == {Mention \o <<" ">>, Mention \o <<" ", "p">>, <<" ">>}

\* session ids the agent can report; "" is the empty string
SessionIds == {"", "s1", "s2"}
None == "None"
Unset == "unset"

\* a Slack event; None stands for a key the payload does not have
Event(type, user, channel, ts, thread_ts, text, channel_type, subtype) ==
    [type |-> type, user |-> user, channel |-> channel, ts |-> ts,
     thread_ts |-> thread_ts, text |-> text, channel_type |-> channel_type,
     subtype |-> subtype]
NoEvent == Event("", "", "", "", None, <<>>, None, None)

\* <<ts, thread_ts>> of a message: a top-level message, which starts thread
\* t2, and a reply inside thread t1
Stamps == {<<"t2", None>>, <<"t2", "t1">>}

\* the events Slack delivers to the two handlers
Events ==
    {Event("app_mention", u, c, st[1], st[2], x, None, sub) :
        u \in Users, c \in Channels, st \in Stamps, x \in Texts,
        sub \in {None, "message_changed"}}
    \cup
    {Event("message", u, c, st[1], st[2], x, ct, sub) :
        u \in Users, c \in Channels, st \in Stamps, x \in Texts,
        ct \in {"im", "channel"}, sub \in {None, "message_changed"}}

\* the events with which _dispatch is called when the text is left aside
DispatchEvents ==
    {Event("message", u, c, st[1], st[2], <<>>, "im", None) :
        u \in Users, c \in Channels, st \in Stamps}

\* the session ids SessionStore.set is called with when exercised on its own
StoreIds == {"", "s1", "s2"}

\* what run_claude can raise
Excs == {"CLINotFoundError", "TimeoutError", "Exception"}

NoCall == [op |-> "none", key |-> NoKey, arg |-> None, val |-> None]

\* ------------------------------------------------------------------- state
VARIABLES
    jobs,       \* job id -> the closure handed to enqueue and its progress
    qobj,       \* queue object id -> pending job ids (asyncio.Queue contents)
    queues,     \* SessionQueue._queues: key -> queue object id, 0 = no entry
    consumers,  \* SessionQueue._consumers: key -> task id, 0 = no entry
    tasks,      \* task id -> consumer task (state, key, local queue, job)
    sessions,   \* SessionStore._sessions: key -> session id or None
    enqSeq,     \* key -> job ids in the order enqueue was called under it
    startSeq,   \* key -> job ids in the order its consumers started them
    recorded,   \* key -> last session id handed to SessionStore.set for it
    ret         \* the last direct call of a function exercised on its own (the
                \* SessionStore methods, _format_response, run_claude), with its
                \* arguments and its result

vars == <<jobs, qobj, queues, consumers, tasks, sessions, enqSeq, startSeq, recorded, ret>>

NoJob == [kind |-> "none", key |-> NoKey, st |-> "unused", resume |-> Unset,
          tok |-> "", is_error |-> FALSE, out |-> "none", runs |-> 0,
          event |-> NoEvent, said |-> <<>>, reacted |-> <<>>,
          exc |-> "", posted |-> <<>>]
NoTask == [st |-> "none", key |-> NoKey, queue |-> 0, cur |-> 0]

Init ==
    /\ jobs = [j \in JobIds |-> NoJob]
    /\ qobj = [q \in JobIds |-> <<>>]
    /\ queues = [k \in Keys |-> 0]
    /\ consumers = [k \in Keys |-> 0]
    /\ tasks = [t \in JobIds |-> NoTask]
    /\ sessions = [k \in StoreKeys |-> None]
    /\ enqSeq = [k \in Keys |-> <<>>]
    /\ startSeq = [k \in Keys |-> <<>>]
    /\ recorded = [k \in StoreKeys |-> None]
    /\ ret = NoCall

\* the id given to the next message or job: ids are handed out in arrival order
Used == {j \in JobIds : jobs[j].st # "unused"}
NextId == Cardinality(Used) + 1

\* ------------------------------------------------------------ SessionStore
\* SessionStore.get: dict.get, None when the key has no entry
get(store, key) == store[key]

\* set that keeps an entry the key already has
setOnce(store, key, session_id) ==
    IF store[key] = None THEN [store EXCEPT ![key] = session_id] ELSE store

\* set that files the session id under the thread alone, whatever the channel
setByThread(store, key, session_id) ==
    [k \in DOMAIN store |-> IF k[2] = key[2] THEN session_id ELSE store[k]]

\* set on a store that keeps one entry only, the last one set
setSingleSlot(store, key, session_id) ==
    [k \in DOMAIN store |-> IF k = key THEN session_id ELSE None]

\* SessionStore.set: insert or overwrite the entry of one key
set(store, key, session_id) == [store EXCEPT ![key] = session_id]

\* _run_claude passes `existing_session or ""` as session_id
SessionIdArg(existing_session) ==
    IF existing_session = None \/ existing_session = "" THEN "" ELSE existing_session

\* run_claude builds the options with `resume=session_id or None`
ResumeOption(session_id) == IF session_id = "" THEN None ELSE session_id

\* ------------------------------------------------------------ SessionQueue
\* `asyncio.Queue()`: maxsize is 0, which makes the queue unbounded
maxsize == 0

\* Queue.full() of a queue that holds one item at most
fullAtOne(items) == Len(items) >= 1

\* Queue.full(): never full when maxsize <= 0; put suspends while it is full
full(items) == IF maxsize <= 0 THEN FALSE ELSE Len(items) >= maxsize

TaskDone(t) == tasks[t].st \in {"done", "failed"}

\* the consumer awaits job(): a plain job starts running; the bot's job runs
\* _run_claude up to its first suspension: store lookup, then the agent call
StartJob(jobs1, j) ==
    LET r == IF jobs1[j].runs = 0 THEN 1 ELSE 2 IN
    IF jobs1[j].kind = "claude"
    THEN [jobs1 EXCEPT ![j].st = "exec", ![j].runs = r,
              ![j].resume = ResumeOption(SessionIdArg(get(sessions, jobs1[j].key)))]
    ELSE [jobs1 EXCEPT ![j].st = "running", ![j].runs = r]

\* CleanUp without `del self._consumers[key]`
CleanUpKeepConsumer(t) ==
    LET k == tasks[t].key IN
    IF queues[k] = 0
    THEN /\ tasks' = [tasks EXCEPT ![t].st = "failed", ![t].queue = 0, ![t].cur = 0]
         /\ UNCHANGED <<queues, consumers>>
    ELSE /\ queues' = [queues EXCEPT ![k] = 0]
         /\ tasks' = [tasks EXCEPT ![t].st = "done", ![t].queue = 0, ![t].cur = 0]
         /\ UNCHANGED consumers

\* `del self._queues[key]; del self._consumers[key]`, then the task returns;
\* a del of a missing key raises KeyError and ends the task there
CleanUp(t) ==
    LET k == tasks[t].key IN
    IF queues[k] = 0
    THEN /\ tasks' = [tasks EXCEPT ![t].st = "failed", ![t].queue = 0, ![t].cur = 0]
         /\ UNCHANGED <<queues, consumers>>
    ELSE /\ queues' = [queues EXCEPT ![k] = 0]
         /\ IF consumers[k] = 0
            THEN /\ tasks' = [tasks EXCEPT ![t].st = "failed", ![t].queue = 0, ![t].cur = 0]
                 /\ UNCHANGED consumers
            ELSE /\ consumers' = [consumers EXCEPT ![k] = 0]
                 /\ tasks' = [tasks EXCEPT ![t].st = "done", ![t].queue = 0, ![t].cur = 0]

\* ConsumeLoop with the newest job taken first (a stack instead of a queue)
ConsumeLoopLifo(t, q, jobs1) ==
    IF qobj[q] # <<>>
    THEN LET j == qobj[q][Len(qobj[q])] IN
         /\ qobj' = [qobj EXCEPT ![q] = SubSeq(@, 1, Len(@) - 1)]
         /\ jobs' = StartJob(jobs1, j)
         /\ tasks' = [tasks EXCEPT ![t].st = "running", ![t].queue = q, ![t].cur = j]
         /\ startSeq' = [startSeq EXCEPT ![jobs1[j].key] = Append(@, j)]
         /\ UNCHANGED <<queues, consumers>>
    ELSE /\ jobs' = jobs1
         /\ CleanUp(t)
         /\ UNCHANGED <<qobj, startSeq>>

\* ConsumeLoop with `if` for `while`: one job per consumer, then the cleanup
ConsumeLoopOnce(t, q, jobs1) ==
    IF qobj[q] # <<>> /\ tasks[t].cur = 0
    THEN LET j == Head(qobj[q]) IN
         /\ qobj' = [qobj EXCEPT ![q] = Tail(@)]
         /\ jobs' = StartJob(jobs1, j)
         /\ tasks' = [tasks EXCEPT ![t].st = "running", ![t].queue = q, ![t].cur = j]
         /\ startSeq' = [startSeq EXCEPT ![jobs1[j].key] = Append(@, j)]
         /\ UNCHANGED <<queues, consumers>>
    ELSE /\ jobs' = jobs1
         /\ CleanUp(t)
         /\ UNCHANGED <<qobj, startSeq>>

\* the `while not queue.empty()` loop of _consume from its test onwards, for
\* task t with local queue q: take the oldest job and start it, or clean up
ConsumeLoop(t, q, jobs1) ==
    IF qobj[q] # <<>>
    THEN LET j == Head(qobj[q]) IN
         /\ qobj' = [qobj EXCEPT ![q] = Tail(@)]
         /\ jobs' = StartJob(jobs1, j)
         /\ tasks' = [tasks EXCEPT ![t].st = "running", ![t].queue = q, ![t].cur = j]
         /\ startSeq' = [startSeq EXCEPT ![jobs1[j].key] = Append(@, j)]
         /\ UNCHANGED <<queues, consumers>>
    ELSE /\ jobs' = jobs1
         /\ CleanUp(t)
         /\ UNCHANGED <<qobj, startSeq>>

\* enqueue that spawns a consumer on every call
enqueueAlways(key, j, jobs1) ==
    LET q == IF queues[key] = 0 THEN j ELSE queues[key] IN
    /\ queues' = [queues EXCEPT ![key] = q]
    /\ qobj' = [qobj EXCEPT ![q] = Append(IF queues[key] = 0 THEN <<>> ELSE @, j)]
    /\ jobs' = [jobs1 EXCEPT ![j].st = "queued"]
    /\ enqSeq' = [enqSeq EXCEPT ![key] = Append(@, j)]
    /\ consumers' = [consumers EXCEPT ![key] = j]
    /\ tasks' = [tasks EXCEPT ![j] = [st |-> "created", key |-> key,
                                     queue |-> 0, cur |-> 0]]

\* enqueue that makes a new asyncio.Queue on every call
enqueueFresh(key, j, jobs1) ==
    /\ queues' = [queues EXCEPT ![key] = j]
    /\ qobj' = [qobj EXCEPT ![j] = <<j>>]
    /\ jobs' = [jobs1 EXCEPT ![j].st = "queued"]
    /\ enqSeq' = [enqSeq EXCEPT ![key] = Append(@, j)]
    /\ IF consumers[key] = 0 \/ TaskDone(consumers[key])
       THEN /\ consumers' = [consumers EXCEPT ![key] = j]
            /\ tasks' = [tasks EXCEPT ![j] = [st |-> "created", key |-> key,
                                             queue |-> 0, cur |-> 0]]
       ELSE UNCHANGED <<consumers, tasks>>

\* enqueue that starts a consumer only for a key that has none registered
enqueueNoRestart(key, j, jobs1) ==
    LET q == IF queues[key] = 0 THEN j ELSE queues[key] IN
    /\ queues' = [queues EXCEPT ![key] = q]
    /\ qobj' = [qobj EXCEPT ![q] = Append(IF queues[key] = 0 THEN <<>> ELSE @, j)]
    /\ jobs' = [jobs1 EXCEPT ![j].st = "queued"]
    /\ enqSeq' = [enqSeq EXCEPT ![key] = Append(@, j)]
    /\ IF consumers[key] = 0
       THEN /\ consumers' = [consumers EXCEPT ![key] = j]
            /\ tasks' = [tasks EXCEPT ![j] = [st |-> "created", key |-> key,
                                             queue |-> 0, cur |-> 0]]
       ELSE UNCHANGED <<consumers, tasks>>

\* enqueue that gives a restarted consumer a new asyncio.Queue
enqueueRestartFresh(key, j, jobs1) ==
    LET restart == consumers[key] = 0 \/ TaskDone(consumers[key])
        q == IF queues[key] = 0 \/ restart THEN j ELSE queues[key]
    IN
    /\ queues' = [queues EXCEPT ![key] = q]
    /\ qobj' = [qobj EXCEPT ![q] = Append(IF q = j THEN <<>> ELSE @, j)]
    /\ jobs' = [jobs1 EXCEPT ![j].st = "queued"]
    /\ enqSeq' = [enqSeq EXCEPT ![key] = Append(@, j)]
    /\ IF restart
       THEN /\ consumers' = [consumers EXCEPT ![key] = j]
            /\ tasks' = [tasks EXCEPT ![j] = [st |-> "created", key |-> key,
                                             queue |-> 0, cur |-> 0]]
       ELSE UNCHANGED <<consumers, tasks>>

\* SessionQueue.enqueue(channel, thread_ts, job) for the job with id j; the
\* call runs through without a suspension unless put finds the queue full
enqueue(key, j, jobs1) ==
    LET q == IF queues[key] = 0 THEN j ELSE queues[key] IN
    /\ ~full(IF queues[key] = 0 THEN <<>> ELSE qobj[q])
    /\ queues' = [queues EXCEPT ![key] = q]
    /\ qobj' = [qobj EXCEPT ![q] = Append(IF queues[key] = 0 THEN <<>> ELSE @, j)]
    /\ jobs' = [jobs1 EXCEPT ![j].st = "queued"]
    /\ enqSeq' = [enqSeq EXCEPT ![key] = Append(@, j)]
    /\ IF consumers[key] = 0 \/ TaskDone(consumers[key])
       THEN /\ consumers' = [consumers EXCEPT ![key] = j]
            /\ tasks' = [tasks EXCEPT ![j] = [st |-> "created", key |-> key,
                                             queue |-> 0, cur |-> 0]]
       ELSE UNCHANGED <<consumers, tasks>>

\* a caller hands a plain job (any async callable) to SessionQueue.enqueue
Enqueue(key) ==
    /\ NextId \in JobIds
    /\ enqueue(key, NextId, [jobs EXCEPT ![NextId].kind = "plain", ![NextId].key = key])
    /\ UNCHANGED <<sessions, startSeq, recorded, ret>>

\* TaskStart behind one global lock: no consumer starts while any job runs
TaskStartGlobal(t) ==
    /\ tasks[t].st = "created"
    /\ \A j \in JobIds : jobs[j].st \notin {"running", "exec", "post"}
    /\ IF queues[tasks[t].key] = 0
       THEN /\ tasks' = [tasks EXCEPT ![t].st = "failed"]
            /\ UNCHANGED <<jobs, qobj, queues, consumers, startSeq>>
       ELSE ConsumeLoop(t, queues[tasks[t].key], jobs)
    /\ UNCHANGED <<sessions, enqSeq, recorded, ret>>

\* the event loop runs a consumer task for the first time:
\* `queue = self._queues[key]`, then the loop
TaskStart(t) ==
    /\ tasks[t].st = "created"
    /\ IF queues[tasks[t].key] = 0
       THEN /\ tasks' = [tasks EXCEPT ![t].st = "failed"]
            /\ UNCHANGED <<jobs, qobj, queues, consumers, startSeq>>
       ELSE ConsumeLoop(t, queues[tasks[t].key], jobs)
    /\ UNCHANGED <<sessions, enqSeq, recorded, ret>>

\* the consumer task whose `await job()` is running job j
TaskOf(j) == CHOOSE t \in JobIds : tasks[t].st = "running" /\ tasks[t].cur = j

\* OnJobException without the try/except: the exception ends the consumer
OnJobExceptionUncaught(t, jobs1) ==
    /\ jobs' = jobs1
    /\ tasks' = [tasks EXCEPT ![t].st = "failed", ![t].queue = 0, ![t].cur = 0]
    /\ UNCHANGED <<qobj, queues, consumers, startSeq>>

\* OnJobException with the try/except around the whole loop: the exception
\* is logged and the consumer goes straight to its cleanup
OnJobExceptionCleanUp(t, jobs1) ==
    /\ jobs' = jobs1
    /\ CleanUp(t)
    /\ UNCHANGED <<qobj, startSeq>>

\* `except Exception: logger.exception(...)`: the loop goes on to its test
OnJobException(t, jobs1) == ConsumeLoop(t, tasks[t].queue, jobs1)

\* a plain job returns: back in _consume, the loop tests the queue again
JobReturn(j) ==
    /\ jobs[j].st = "running"
    /\ ConsumeLoop(TaskOf(j), tasks[TaskOf(j)].queue, [jobs EXCEPT ![j].st = "done"])
    /\ UNCHANGED <<sessions, enqSeq, recorded, ret>>

\* a plain job raises an ordinary Exception
JobRaise(j) ==
    /\ jobs[j].st = "running"
    /\ OnJobException(TaskOf(j), [jobs EXCEPT ![j].st = "raised"])
    /\ UNCHANGED <<sessions, enqSeq, recorded, ret>>

\* a job ends with a BaseException that is not an Exception (cancellation):
\* neither _run_claude nor _consume catches it, the task ends without cleanup
JobAbort(j) ==
    /\ jobs[j].st \in {"running", "exec", "post"}
    /\ jobs' = [jobs EXCEPT ![j].st = "aborted", ![j].resume = Unset, ![j].tok = ""]
    /\ tasks' = [tasks EXCEPT ![TaskOf(j)].st = "failed", ![TaskOf(j)].queue = 0,
                              ![TaskOf(j)].cur = 0]
    /\ UNCHANGED <<qobj, queues, consumers, sessions, enqSeq, startSeq, recorded, ret>>

\* ------------------------------------------------------------------ bot.py
\* the fixed texts the bot sends (the two error notices without the cross mark
\* they start with)
NotAuthorizedNotice == "Sorry, you're not authorized to use this bot."
PromptRequiredNotice == "Please provide a prompt after mentioning me."
CliNotFoundNotice == "Claude CLI not found. Is Claude Code installed and on PATH?"
UnexpectedErrorNotice == "An unexpected error occurred. Check the bot logs."
FormattedResponse == "formatted response"
EYES_EMOJI == "eyes"

\* str.strip(): leading and trailing whitespace removed
IsSpace(c) == c = " "
RECURSIVE lstrip(_)
lstrip(s) == IF s # <<>> /\ IsSpace(Head(s)) THEN lstrip(Tail(s)) ELSE s
RECURSIVE rstrip(_)
rstrip(s) == IF s # <<>> /\ IsSpace(s[Len(s)]) THEN rstrip(SubSeq(s, 1, Len(s) - 1)) ELSE s
strip(s) == rstrip(lstrip(s))

\* text.split(sep, 1)[-1]: what follows the first sep, the whole text without one
split_last(text, sep) ==
    IF \E i \in 1..Len(text) : text[i] = sep
    THEN LET i == CHOOSE i \in 1..Len(text) :
                      text[i] = sep /\ \A h \in 1..(i - 1) : text[h] # sep
         IN SubSeq(text, i + 1, Len(text))
    ELSE text

\* thread derivation that looks at the message's own ts only
thread_ts_own(event) == event.ts

\* event.get("thread_ts", event.get("ts", ""))
thread_ts(event) == IF event.thread_ts # None THEN event.thread_ts ELSE event.ts

\* the three ways _dispatch leaves its first run: the record of handler m
Rejection(event, notice) ==
    [NoJob EXCEPT !.kind = "claude", !.key = <<event.channel, thread_ts(event)>>,
        !.st = "saying", !.event = event,
        !.out = IF notice = NotAuthorizedNotice THEN "unauth" ELSE "noprompt",
        !.said = <<[text |-> notice, thread_ts |-> thread_ts(event)]>>]
Acknowledgement(event, timestamp) ==
    [NoJob EXCEPT !.kind = "claude", !.key = <<event.channel, thread_ts(event)>>,
        !.st = "reacting", !.event = event,
        !.reacted = <<[channel |-> event.channel, timestamp |-> timestamp,
                       name |-> EYES_EMOJI]>>]

\* dispatch that reads the session store while it builds the job
dispatchLookup(event, prompt) ==
    /\ NextId \in JobIds
    /\ jobs' = [jobs EXCEPT ![NextId] =
                  IF event.user \notin allowed_user_ids
                  THEN Rejection(event, NotAuthorizedNotice)
                  ELSE IF prompt = <<>>
                  THEN Rejection(event, PromptRequiredNotice)
                  ELSE [Acknowledgement(event, event.ts) EXCEPT !.resume =
                           ResumeOption(SessionIdArg(get(sessions,
                               <<event.channel, thread_ts(event)>>)))]]
    /\ UNCHANGED <<qobj, queues, consumers, tasks, sessions, enqSeq, startSeq, recorded, ret>>

\* dispatch without the allow-list check
dispatchAnyone(event, prompt) ==
    /\ NextId \in JobIds
    /\ jobs' = [jobs EXCEPT ![NextId] =
                  IF prompt = <<>>
                  THEN Rejection(event, PromptRequiredNotice)
                  ELSE Acknowledgement(event, event.ts)]
    /\ UNCHANGED <<qobj, queues, consumers, tasks, sessions, enqSeq, startSeq, recorded, ret>>

\* dispatch that puts the reaction on the thread's first message
dispatchReactThread(event, prompt) ==
    /\ NextId \in JobIds
    /\ jobs' = [jobs EXCEPT ![NextId] =
                  IF event.user \notin allowed_user_ids
                  THEN Rejection(event, NotAuthorizedNotice)
                  ELSE IF prompt = <<>>
                  THEN Rejection(event, PromptRequiredNotice)
                  ELSE Acknowledgement(event, thread_ts(event))]
    /\ UNCHANGED <<qobj, queues, consumers, tasks, sessions, enqSeq, startSeq, recorded, ret>>

\* dispatch that tests the prompt before the sender
dispatchPromptFirst(event, prompt) ==
    /\ NextId \in JobIds
    /\ jobs' = [jobs EXCEPT ![NextId] =
                  IF prompt = <<>>
                  THEN Rejection(event, PromptRequiredNotice)
                  ELSE IF event.user \notin allowed_user_ids
                  THEN Rejection(event, NotAuthorizedNotice)
                  ELSE Acknowledgement(event, event.ts)]
    /\ UNCHANGED <<qobj, queues, consumers, tasks, sessions, enqSeq, startSeq, recorded, ret>>

\* _dispatch up to its first suspension: the two rejections (one say each),
\* or the acknowledgement reaction being sent
dispatch(event, prompt) ==
    /\ NextId \in JobIds
    /\ jobs' = [jobs EXCEPT ![NextId] =
                  IF event.user \notin allowed_user_ids
                  THEN Rejection(event, NotAuthorizedNotice)
                  ELSE IF prompt = <<>>
                  THEN Rejection(event, PromptRequiredNotice)
                  ELSE Acknowledgement(event, event.ts)]
    /\ UNCHANGED <<qobj, queues, consumers, tasks, sessions, enqSeq, startSeq, recorded, ret>>

\* a handler calls _dispatch with this event and this prompt
Message(event, prompt) ==
    /\ NextId <= MaxMsgs
    /\ dispatch(event, prompt)

\* handle_mention that does not strip the text after the mention
handle_mentionNoStrip(event) ==
    /\ NextId <= MaxEvents
    /\ event.type = "app_mention"
    /\ dispatch(event, split_last(event.text, ">"))

\* the app_mention handler: the prompt is what follows the mention
handle_mention(event) ==
    /\ NextId <= MaxEvents
    /\ event.type = "app_mention"
    /\ dispatch(event, strip(split_last(event.text, ">")))

\* the message handler: only direct messages without a subtype are dispatched,
\* every other message event is dropped without a trace
handle_direct_message(event) ==
    /\ NextId <= MaxEvents
    /\ event.type = "message"
    /\ IF event.channel_type # "im" \/ event.subtype # None
       THEN UNCHANGED vars
       ELSE dispatch(event, strip(event.text))

\* say completes or raises: either way the handler is over and its locals are
\* gone, nothing was enqueued
SayDone(m) ==
    /\ jobs[m].st = "saying"
    /\ jobs' = [jobs EXCEPT ![m] = [NoJob EXCEPT !.kind = "claude", !.st = "rejected"]]
    /\ UNCHANGED <<qobj, queues, consumers, tasks, sessions, enqSeq, startSeq, recorded, ret>>

\* _react without its try/except: a failure of reactions_add comes out of it
reactUncaught(failed) == IF failed THEN "raised" ELSE "returned"

\* how _react ends when reactions_add has or has not failed: `except
\* Exception` logs the failure, so _react returns either way
react(failed) == "returned"

\* _dispatch after `await _react(...)`: it builds _job and calls
\* session_queue.enqueue; an exception out of _react would end the handler
ReactEnd(m, failed) ==
    /\ jobs[m].st = "reacting"
    /\ IF react(failed) = "returned"
       THEN enqueue(jobs[m].key, m,
                    [jobs EXCEPT ![m].event = NoEvent, ![m].reacted = <<>>])
       ELSE /\ jobs' = [jobs EXCEPT ![m] = [NoJob EXCEPT !.kind = "claude",
                                                         !.st = "crashed"]]
            /\ UNCHANGED <<qobj, queues, consumers, tasks, enqSeq>>
    /\ UNCHANGED <<sessions, startSeq, recorded, ret>>

\* reactions_add completes or fails; _dispatch resumes
ReactDone(m) == \E failed \in BOOLEAN : ReactEnd(m, failed)

\* Post that sends the message to the channel itself, outside any thread
PostTopLevel(j, text) == <<[channel |-> jobs[j].key[1], thread_ts |-> None, text |-> text]>>

\* the chat_postMessage call of _post
Post(j, text) == <<[channel |-> jobs[j].key[1], thread_ts |-> jobs[j].key[2], text |-> text]>>

\* ExecReturn that stores a session id only when the key has none yet
ExecReturnFirstOnly(j, result) ==
    /\ jobs[j].st = "exec"
    /\ sessions' = IF result.session_id # "" /\ get(sessions, jobs[j].key) = None
                   THEN set(sessions, jobs[j].key, result.session_id)
                   ELSE sessions
    /\ recorded' = IF result.session_id # ""
                   THEN [recorded EXCEPT ![jobs[j].key] = result.session_id]
                   ELSE recorded
    /\ jobs' = [jobs EXCEPT ![j].st = "post", ![j].tok = result.session_id,
                   ![j].is_error = result.is_error, ![j].out = "result",
                   ![j].posted = Post(j, FormattedResponse)]
    /\ UNCHANGED <<qobj, queues, consumers, tasks, enqSeq, startSeq, ret>>

\* ExecReturn that stores whatever session id came back, the empty one too
ExecReturnAlwaysSet(j, result) ==
    /\ jobs[j].st = "exec"
    /\ sessions' = set(sessions, jobs[j].key, result.session_id)
    /\ recorded' = [recorded EXCEPT ![jobs[j].key] = result.session_id]
    /\ jobs' = [jobs EXCEPT ![j].st = "post", ![j].tok = result.session_id,
                   ![j].is_error = result.is_error, ![j].out = "result",
                   ![j].posted = Post(j, FormattedResponse)]
    /\ UNCHANGED <<qobj, queues, consumers, tasks, enqSeq, startSeq, ret>>

\* ExecReturn that stores the session id of a successful result only
ExecReturnUnlessError(j, result) ==
    /\ jobs[j].st = "exec"
    /\ sessions' = IF result.session_id # "" /\ ~result.is_error
                   THEN set(sessions, jobs[j].key, result.session_id)
                   ELSE sessions
    /\ recorded' = IF result.session_id # "" /\ ~result.is_error
                   THEN [recorded EXCEPT ![jobs[j].key] = result.session_id]
                   ELSE recorded
    /\ jobs' = [jobs EXCEPT ![j].st = "post", ![j].tok = result.session_id,
                   ![j].is_error = result.is_error, ![j].out = "result",
                   ![j].posted = Post(j, FormattedResponse)]
    /\ UNCHANGED <<qobj, queues, consumers, tasks, enqSeq, startSeq, ret>>

\* run_claude returns a ClaudeResult: _run_claude stores its session_id when
\* that is non-empty, whatever its is_error, formats the result and starts
\* posting it
ExecReturn(j, result) ==
    /\ jobs[j].st = "exec"
    /\ sessions' = IF result.session_id # ""
                   THEN set(sessions, jobs[j].key, result.session_id)
                   ELSE sessions
    /\ recorded' = IF result.session_id # ""
                   THEN [recorded EXCEPT ![jobs[j].key] = result.session_id]
                   ELSE recorded
    /\ jobs' = [jobs EXCEPT ![j].st = "post", ![j].tok = result.session_id,
                   ![j].is_error = result.is_error, ![j].out = "result",
                   ![j].posted = Post(j, FormattedResponse)]
    /\ UNCHANGED <<qobj, queues, consumers, tasks, enqSeq, startSeq, ret>>

\* ExecRaise without the generic handler: any other exception leaves _job and
\* is caught by _consume
ExecRaiseReraise(j, exc) ==
    /\ jobs[j].st = "exec"
    /\ IF exc = "CLINotFoundError"
       THEN /\ jobs' = [jobs EXCEPT ![j].st = "post", ![j].exc = exc,
                           ![j].out = "clinotfound",
                           ![j].posted = Post(j, CliNotFoundNotice)]
            /\ UNCHANGED <<qobj, queues, consumers, tasks, startSeq>>
       ELSE OnJobException(TaskOf(j), [jobs EXCEPT ![j].st = "raised", ![j].resume = Unset])
    /\ UNCHANGED <<sessions, enqSeq, recorded, ret>>

\* ExecRaise whose generic handler comes first
ExecRaiseGeneric(j, exc) ==
    /\ jobs[j].st = "exec"
    /\ jobs' = [jobs EXCEPT ![j].st = "post", ![j].exc = exc, ![j].out = "error",
                   ![j].posted = Post(j, UnexpectedErrorNotice)]
    /\ UNCHANGED <<qobj, queues, consumers, tasks, sessions, enqSeq, startSeq, recorded, ret>>

\* ExecRaise that drops the key's entry when the agent call fails
ExecRaiseForget(j, exc) ==
    /\ jobs[j].st = "exec"
    /\ jobs' = [jobs EXCEPT ![j].st = "post", ![j].exc = exc,
                   ![j].out = IF exc = "CLINotFoundError" THEN "clinotfound" ELSE "error",
                   ![j].posted = IF exc = "CLINotFoundError"
                                 THEN Post(j, CliNotFoundNotice)
                                 ELSE Post(j, UnexpectedErrorNotice)]
    /\ sessions' = [sessions EXCEPT ![jobs[j].key] = None]
    /\ UNCHANGED <<qobj, queues, consumers, tasks, enqSeq, startSeq, recorded, ret>>

\* run_claude raises: CLINotFoundError has its own handler and notice, every
\* other Exception gets the generic one; the store is not touched
ExecRaise(j, exc) ==
    /\ jobs[j].st = "exec"
    /\ jobs' = [jobs EXCEPT ![j].st = "post", ![j].exc = exc,
                   ![j].out = IF exc = "CLINotFoundError" THEN "clinotfound" ELSE "error",
                   ![j].posted = IF exc = "CLINotFoundError"
                                 THEN Post(j, CliNotFoundNotice)
                                 ELSE Post(j, UnexpectedErrorNotice)]
    /\ UNCHANGED <<qobj, queues, consumers, tasks, sessions, enqSeq, startSeq, recorded, ret>>

\* _post without its try/except: a failure of chat_postMessage comes out of it
postUncaught(failed) == IF failed THEN "raised" ELSE "returned"

\* how _post ends when chat_postMessage has or has not failed: `except
\* Exception` logs the failure, so _post returns either way
post(failed) == "returned"

\* _run_claude after `await _post(...)`: _job returns, which frees its locals
\* and what it was posting, into _consume, whose loop tests the queue.  An
\* exception out of the _post of the try block would reach `except
\* Exception`, which posts the generic notice; one out of the _post of a
\* handler would leave _job and be caught by _consume
PostEnd(j, failed) ==
    /\ jobs[j].st = "post"
    /\ IF post(failed) = "returned"
       THEN ConsumeLoop(TaskOf(j), tasks[TaskOf(j)].queue,
                [jobs EXCEPT ![j].st = "done", ![j].resume = Unset, ![j].tok = "",
                             ![j].is_error = FALSE,
                             ![j].exc = "", ![j].posted = <<>>, ![j].out = "none"])
       ELSE IF jobs[j].out = "result"
       THEN /\ jobs' = [jobs EXCEPT ![j].out = "error", ![j].exc = "Exception",
                                    ![j].posted = Post(j, UnexpectedErrorNotice)]
            /\ UNCHANGED <<qobj, queues, consumers, tasks, startSeq>>
       ELSE OnJobException(TaskOf(j),
                [jobs EXCEPT ![j].st = "raised", ![j].resume = Unset, ![j].tok = "",
                             ![j].is_error = FALSE,
                             ![j].exc = "", ![j].posted = <<>>, ![j].out = "none"])
    /\ UNCHANGED <<sessions, enqSeq, recorded, ret>>

\* chat_postMessage completes or fails; _run_claude resumes
PostDone(j) == \E failed \in BOOLEAN : PostEnd(j, failed)

\* ------------------------------------------------------- SessionStore alone
\* a caller stores a session id
StoreSet(channel, thread, session_id) ==
    /\ sessions' = set(sessions, <<channel, thread>>, session_id)
    /\ recorded' = [recorded EXCEPT ![<<channel, thread>>] = session_id]
    /\ ret' = [op |-> "set", key |-> <<channel, thread>>, arg |-> session_id, val |-> None]
    /\ UNCHANGED <<jobs, qobj, queues, consumers, tasks, enqSeq, startSeq>>

\* a caller looks a session id up
StoreGet(channel, thread) ==
    /\ ret' = [op |-> "get", key |-> <<channel, thread>>, arg |-> None,
               val |-> get(sessions, <<channel, thread>>)]
    /\ UNCHANGED <<jobs, qobj, queues, consumers, tasks, sessions, enqSeq, startSeq, recorded>>

\* --------------------------------------------------------- _format_response
\* the fixed pieces of the formatted text, each kept as one item of the
\* sequence and named by its words: the opening of the error block (a warning
\* sign, the words below, a newline and a code fence), the closing code
\* fence, and the marker (a newline, an ellipsis and the word below)
ErrorOpen == <<"Claude encountered an error:">>
ErrorClose == <<"code fence">>
TruncationMarker == <<"... (truncated)">>

\* the agent outputs: up to MaxOutput characters, plain ones and asterisks
OutputChars == {"x", "*"}
Outputs == UNION {[1..n -> OutputChars] : n \in 0..MaxOutput}
Results == [output : Outputs, is_error : BOOLEAN]
Lengths == 0..MaxOutput

\* SlackMarkdownConverter.convert, as far as the tests pin it down: the two
\* asterisks of Markdown bold become the single one of Slack bold, plain text
\* is kept
RECURSIVE convert(_)
convert(text) ==
    IF Len(text) >= 2 /\ text[1] = "*" /\ text[2] = "*"
    THEN <<"*">> \o convert(SubSeq(text, 3, Len(text)))
    ELSE IF text = <<>> THEN <<>>
    ELSE <<Head(text)>> \o convert(Tail(text))

\* result.output[:max_length]
Slice(output, max_length) ==
    SubSeq(output, 1, IF Len(output) < max_length THEN Len(output) ELSE max_length)

\* _format_response that marks an output of exactly max_length too
format_responseAtLimit(result, max_length) ==
    LET output == Slice(result.output, max_length) IN
    IF result.is_error
    THEN ErrorOpen \o output \o ErrorClose
    ELSE convert(IF Len(result.output) >= max_length
                 THEN output \o TruncationMarker
                 ELSE output)

\* _format_response that appends the marker before it looks at is_error
format_responseMarkerFirst(result, max_length) ==
    LET cut == Slice(result.output, max_length)
        output == IF Len(result.output) > max_length
                  THEN cut \o TruncationMarker
                  ELSE cut
    IN
    IF result.is_error
    THEN ErrorOpen \o output \o ErrorClose
    ELSE convert(output)

\* _format_response(result, max_length)
format_response(result, max_length) ==
    LET output == Slice(result.output, max_length) IN
    IF result.is_error
    THEN ErrorOpen \o output \o ErrorClose
    ELSE convert(IF Len(result.output) > max_length
                 THEN output \o TruncationMarker
                 ELSE output)

\* a caller formats a result
FormatResponse(result, max_length) ==
    /\ ret' = [op |-> "format_response", key |-> NoKey,
               arg |-> [result |-> result, max_length |-> max_length],
               val |-> format_response(result, max_length)]
    /\ UNCHANGED <<jobs, qobj, queues, consumers, tasks, sessions, enqSeq, startSeq, recorded>>

\* ---------------------------------------------------------------- run_claude
\* the messages query() can yield: the init system message with its
\* session_id, a result message, and any other message
InitMessage(session_id) == [type |-> "system", session_id |-> session_id]
ResultMessage(session_id, is_error) ==
    [type |-> "result", session_id |-> session_id, is_error |-> is_error]
OtherMessage == [type |-> "assistant", session_id |-> ""]
Messages ==
    {InitMessage(id) : id \in SessionIds}
        \cup {ResultMessage(id, e) : id \in SessionIds, e \in BOOLEAN}
        \cup {OtherMessage}
Streams == UNION {[1..n -> Messages] : n \in 0..MaxStream}

\* a ClaudeResult, as far as its is_error and session_id go; none tells
\* `result = None`, the value before any result message, from a result
ClaudeResult(is_error, session_id) ==
    [none |-> FALSE, is_error |-> is_error, session_id |-> session_id]
NoResult == [none |-> TRUE, is_error |-> FALSE, session_id |-> ""]

\* `x or y` on strings
Or(x, y) == IF x # "" THEN x ELSE y

\* the loop body with `captured_session_id or message.session_id`: the first
\* session id seen is kept
on_messageFirstWins(state, message) ==
    IF message.type = "system"
    THEN [state EXCEPT !.captured_session_id = message.session_id]
    ELSE IF message.type = "result"
    THEN LET id == Or(state.captured_session_id, message.session_id) IN
         [result |-> ClaudeResult(message.is_error, id), captured_session_id |-> id]
    ELSE state

\* the body of the `async for message in query(...)` loop of run_claude
on_message(state, message) ==
    IF message.type = "system"
    THEN [state EXCEPT !.captured_session_id = message.session_id]
    ELSE IF message.type = "result"
    THEN LET id == Or(message.session_id, state.captured_session_id) IN
         [result |-> ClaudeResult(message.is_error, id), captured_session_id |-> id]
    ELSE state

\* the loop over the stream
RECURSIVE loop(_, _)
loop(messages, state) ==
    IF messages = <<>> THEN state
    ELSE loop(Tail(messages), on_message(state, Head(messages)))

\* run_claude on a stream of messages, as far as is_error and the session id
\* go: the ClaudeResult built from the last result message, or, for a stream
\* without one, the fallback error result with the captured id
run_claude(messages) ==
    LET end == loop(messages, [result |-> NoResult, captured_session_id |-> ""]) IN
    IF ~end.result.none
    THEN [fallback |-> FALSE, is_error |-> end.result.is_error,
          session_id |-> end.result.session_id]
    ELSE [fallback |-> TRUE, is_error |-> TRUE,
          session_id |-> end.captured_session_id]

\* everything run_claude can return to _run_claude
ClaudeResults == {run_claude(messages) : messages \in Streams}

\* a caller runs the agent, which yields this stream
RunClaude(messages) ==
    /\ ret' = [op |-> "run_claude", key |-> NoKey, arg |-> messages,
               val |-> run_claude(messages)]
    /\ UNCHANGED <<jobs, qobj, queues, consumers, tasks, sessions, enqSeq, startSeq, recorded>>

\* ------------------------------------------------------------ specification
\* the messages _dispatch turns into jobs: an allowed sender and a prompt
AcceptedEvents == {e \in DispatchEvents : e.user \in allowed_user_ids}
AcceptedPrompts == Prompts \ {<<>>}

\* the bot at work: the messages that pass the two tests of _dispatch become
\* jobs, which run _run_claude (the rejections, which touch neither the
\* queue nor the store, are part of HandlerSpec)
Next ==
    \/ \E e \in AcceptedEvents, p \in AcceptedPrompts : Message(e, p)
    \/ \E m \in JobIds : ReactDone(m)
    \/ \E t \in JobIds : TaskStart(t)
    \/ \E j \in JobIds, r \in ClaudeResults : ExecReturn(j, r)
    \/ \E j \in JobIds, e \in Excs : ExecRaise(j, e)
    \/ \E j \in JobIds : PostDone(j)

Spec == Init /\ [][Next]_vars

\* SessionQueue on its own, driven with arbitrary jobs that return or raise
NextQueue ==
    \/ \E k \in Keys : Enqueue(k)
    \/ \E t \in JobIds : TaskStart(t)
    \/ \E j \in JobIds : JobReturn(j)
    \/ \E j \in JobIds : JobRaise(j)

QueueSpec == Init /\ [][NextQueue]_vars

\* the same when a job may also end with a BaseException
NextQueueBase == NextQueue \/ \E j \in JobIds : JobAbort(j)

QueueBaseSpec == Init /\ [][NextQueueBase]_vars

\* the event loop runs every runnable task, and every job terminates
QueueFairness ==
    /\ \A t \in JobIds : WF_vars(TaskStart(t))
    /\ \A j \in JobIds : WF_vars(JobReturn(j) \/ JobRaise(j))

FairQueueSpec == QueueSpec /\ QueueFairness

\* the event loop runs every runnable task; no job is assumed to terminate
StartFairQueueSpec == QueueSpec /\ \A t \in JobIds : WF_vars(TaskStart(t))

\* the bot driven by the events Slack delivers to its two handlers
NextHandler ==
    \/ \E e \in Events : handle_mention(e)
    \/ \E e \in Events : handle_direct_message(e)
    \/ \E m \in JobIds : SayDone(m)
    \/ \E m \in JobIds : ReactDone(m)
    \/ \E t \in JobIds : TaskStart(t)
    \/ \E j \in JobIds, r \in ClaudeResults : ExecReturn(j, r)
    \/ \E j \in JobIds, e \in Excs : ExecRaise(j, e)
    \/ \E j \in JobIds : PostDone(j)

HandlerSpec == Init /\ [][NextHandler]_vars

\* SessionStore on its own, called with arbitrary keys and session ids
NextStore ==
    \/ \E c \in StoreChannels, t \in Threads, s \in StoreIds : StoreSet(c, t, s)
    \/ \E c \in StoreChannels, t \in Threads : StoreGet(c, t)

StoreSpec == Init /\ [][NextStore]_vars

\* _format_response on its own, called with arbitrary results and limits
NextFormat == \E r \in Results, n \in Lengths : FormatResponse(r, n)

FormatSpec == Init /\ [][NextFormat]_vars

\* run_claude on its own: one call per behaviour, on an arbitrary message
\* stream (the function keeps nothing between calls)
NextRunner == \E ms \in Streams : ret = NoCall /\ RunClaude(ms)

RunnerSpec == Init /\ [][NextRunner]_vars

\* ------------------------------------------------------------- properties
Range(seq) == {seq[i] : i \in 1..Len(seq)}
IndexOf(seq, x) == CHOOSE i \in 1..Len(seq) : seq[i] = x
IsPrefix(s1, s2) == Len(s1) <= Len(s2) /\ \A i \in 1..Len(s1) : s1[i] = s2[i]
InFlight(j) == jobs[j].st \in {"running", "exec", "post"}
Finished(j) == jobs[j].st \in {"done", "raised", "aborted"}
LiveTasks(k) == {t \in JobIds : tasks[t].key = k /\ tasks[t].st \in {"created", "running"}}
TasksOf(k) == {t \in JobIds : tasks[t].key = k /\ tasks[t].st # "none"}

\* C1: under every key the jobs start in the order of their enqueue calls,
\* and a job starts only after the one before it has returned or raised
C1_StartOrder ==
    \A k \in Keys :
        /\ IsPrefix(startSeq[k], enqSeq[k])
        /\ \A i \in 1..Len(startSeq[k]) :
               i < Len(startSeq[k]) => Finished(startSeq[k][i])

\* three jobs enqueued under one key, the second running after the first
C1_Witness ==
    \E k \in Keys :
        /\ Len(enqSeq[k]) >= 3
        /\ Len(startSeq[k]) = 2
        /\ jobs[startSeq[k][2]].st = "running"

\* C2: a key never has two unfinished consumer tasks, nor two jobs in flight
C2_OneConsumer ==
    \A k \in Keys :
        /\ Cardinality(LiveTasks(k)) <= 1
        /\ Cardinality({j \in JobIds : jobs[j].key = k /\ InFlight(j)}) <= 1

\* enqueue was called twice while the key's consumer was running a job
C2_Witness ==
    \E k \in Keys :
        /\ consumers[k] # 0
        /\ tasks[consumers[k]].st = "running"
        /\ queues[k] # 0
        /\ Len(qobj[queues[k]]) >= 2

\* C3: every job handed to enqueue is eventually executed, when runnable
\* tasks get to run and every job terminates
C3_EventuallyExecuted ==
    \A j \in JobIds : (jobs[j].st = "queued") ~> (jobs[j].runs >= 1)

\* a key whose jobs all ran, the last by a consumer spawned after a cleanup
C3_Witness ==
    \E k \in Keys :
        /\ Len(enqSeq[k]) >= 3
        /\ \A j \in Range(enqSeq[k]) : jobs[j].st \in {"done", "raised"}
        /\ Cardinality(TasksOf(k)) >= 2
        /\ LiveTasks(k) = {}

\* C4: a pending job always sits, once, on the queue object registered for
\* its key (never on one the consumer deleted), and no job runs twice
C4_NoDropNoRepeat ==
    \A j \in JobIds :
        /\ jobs[j].runs <= 1
        /\ jobs[j].st = "queued" =>
               /\ queues[jobs[j].key] # 0
               /\ Cardinality({i \in 1..Len(qobj[queues[jobs[j].key]]) :
                                  qobj[queues[jobs[j].key]][i] = j}) = 1

\* a job enqueued after the key's consumer saw its queue empty and retired:
\* it waits on a new queue object, with a new consumer
C4_Witness ==
    \E j \in JobIds :
        /\ jobs[j].st = "queued"
        /\ queues[jobs[j].key] = j
        /\ consumers[jobs[j].key] = j
        /\ \E t \in JobIds : t # j /\ tasks[t].key = jobs[j].key /\ tasks[t].st = "done"

\* jobs of the bot that got past both checks of _dispatch
Accepted(j) == jobs[j].kind = "claude" /\ jobs[j].st \notin {"unused", "saying", "rejected"}
Started(j) == jobs[j].runs >= 1
\* a started before b: a has started, and b has not or started later
StartedBefore(a, b) ==
    LET seq == startSeq[jobs[a].key] IN
    /\ a \in Range(seq)
    /\ b \in Range(seq) => IndexOf(seq, a) < IndexOf(seq, b)

\* C5: of two accepted messages of one key, the one that reached its handler
\* first (the lower id) has its job executed first
C5_ArrivalOrder ==
    \A a, b \in JobIds :
        (a < b /\ Accepted(a) /\ Accepted(b) /\ jobs[a].key = jobs[b].key /\ Started(b))
            => StartedBefore(a, b)

\* C6: with consumers scheduled fairly and no job assumed to finish, the
\* oldest pending job of a key with no job in flight gets started, whatever
\* the jobs of other keys do
C6_KeysIndependent ==
    \A j \in JobIds :
        (/\ jobs[j].st = "queued"
         /\ queues[jobs[j].key] # 0
         /\ Head(qobj[queues[jobs[j].key]]) = j
         /\ \A i \in JobIds : jobs[i].key = jobs[j].key => ~InFlight(i))
            ~> Started(j)

\* a job of each of two keys in flight at once
C6_Witness ==
    \E a, b \in JobIds :
        /\ jobs[a].key # jobs[b].key
        /\ jobs[a].st = "running"
        /\ jobs[b].st = "running"

\* C7: in the step where a job raises, its consumer starts the oldest pending
\* job of the key (or, with none pending, retires cleanly); no other job and
\* no other consumer changes
C7_RaiseContinues ==
    [][\A j \in JobIds :
          (jobs[j].st = "running" /\ jobs'[j].st = "raised") =>
              LET t == TaskOf(j)
                  q == tasks[t].queue
              IN  /\ qobj[q] # <<>> =>
                        /\ tasks'[t].st = "running"
                        /\ tasks'[t].cur = Head(qobj[q])
                        /\ jobs'[Head(qobj[q])].st = "running"
                        /\ qobj'[q] = Tail(qobj[q])
                  /\ qobj[q] = <<>> =>
                        /\ tasks'[t].st = "done"
                        /\ queues'[tasks[t].key] = 0
                        /\ consumers'[tasks[t].key] = 0
                  /\ \A u \in JobIds \ {t} : tasks'[u] = tasks[u]
                  /\ \A i \in JobIds \ {j} :
                        (qobj[q] = <<>> \/ i # Head(qobj[q])) => jobs'[i] = jobs[i]
      ]_vars

\* a key whose first job raised and whose second job was then started by the
\* same consumer, while a job of another key is running
C7_Witness ==
    \E k \in Keys :
        /\ Len(startSeq[k]) >= 2
        /\ jobs[startSeq[k][1]].st = "raised"
        /\ Started(startSeq[k][2])
        /\ Cardinality(TasksOf(k)) = 1
        /\ \E i \in JobIds : jobs[i].key # k /\ jobs[i].st = "running"

\* C8: once a job of a key has read the session store or called the agent,
\* every job of the key started before it has finished, its post included
LookedUp(j) == jobs[j].resume # Unset \/ jobs[j].st \in {"exec", "post", "done"}
C8_WriteAndPostBeforeNext ==
    \A a, b \in JobIds :
        (/\ a # b
         /\ Accepted(a) /\ Accepted(b)
         /\ jobs[a].key = jobs[b].key
         /\ StartedBefore(a, b)
         /\ LookedUp(b))
            => jobs[a].st = "done"

\* the second job of a key calls the agent after the first wrote a session
\* id and posted its reply
C8_Witness ==
    \E k \in Keys :
        /\ Len(startSeq[k]) = 2
        /\ jobs[startSeq[k][1]].st = "done"
        /\ jobs[startSeq[k][2]].st = "exec"
        /\ sessions[k] # None

\* C9: a job starts with the resume option equal to the store's entry for
\* its key at that moment (None without an entry), and while it calls the
\* agent that option is the last session id a job of its key was given
StoreEntry(k) == IF sessions[k] = None \/ sessions[k] = "" THEN None ELSE sessions[k]
C9_ResumeIsStored ==
    /\ [](\A j \in JobIds : jobs[j].st = "exec" => jobs[j].resume = recorded[jobs[j].key])
    /\ [][\A j \in JobIds :
             (jobs[j].st = "queued" /\ jobs'[j].st = "exec")
                 => jobs'[j].resume = StoreEntry(jobs[j].key)]_vars

\* a follow-up job, queued while the key's consumer was busy, resumes the
\* session id the job before it got, which replaced an older one
C9_Witness ==
    \E k \in Keys :
        /\ Len(startSeq[k]) = 3
        /\ Cardinality(TasksOf(k)) = 1
        /\ jobs[startSeq[k][3]].st = "exec"
        /\ jobs[startSeq[k][3]].resume = "s2"

\* C10: a key with no pending or running job and no live consumer has no
\* entry in _queues or _consumers, and a job enqueued under a key that was
\* cleaned up before is executed
Drained(k) ==
    /\ enqSeq[k] # <<>>
    /\ \A j \in Range(enqSeq[k]) : Finished(j)
    /\ LiveTasks(k) = {}
Resubmitted(j) ==
    /\ jobs[j].st = "queued"
    /\ Len(enqSeq[jobs[j].key]) >= 2
    /\ queues[jobs[j].key] = j
    /\ consumers[jobs[j].key] = j
C10_CleanedThenReusable ==
    /\ [](\A k \in Keys : Drained(k) => (queues[k] = 0 /\ consumers[k] = 0))
    /\ \A j \in JobIds : Resubmitted(j) ~> Finished(j)

\* submit, drain, submit again, drain again: the second job ran under a
\* consumer of its own and the key is clean once more
C10_Witness ==
    \E k \in Keys :
        /\ Len(enqSeq[k]) >= 2
        /\ Drained(k)
        /\ Cardinality(TasksOf(k)) >= 2
        /\ queues[k] = 0
        /\ consumers[k] = 0

\* ------------------------------------------------------ handler properties
\* the handler of message m is between its first step and its return
Handling(m) == jobs[m].event # NoEvent
Enqueued(m) == \E k \in Keys : m \in Range(enqSeq[k])
InSomeQueue(m) == \E q \in JobIds : m \in Range(qobj[q])
EnqueueCount(m) ==
    Cardinality({<<k, i>> \in Keys \X (1..MaxJobs) : i <= Len(enqSeq[k]) /\ enqSeq[k][i] = m})
\* the thread of a message, read off its payload
ThreadOfMessage(e) == IF e.thread_ts = None THEN e.ts ELSE e.thread_ts
\* the steps of the handler of m that ends in a rejection
RejectionStep(m) ==
    \/ jobs[m].st = "unused" /\ jobs'[m].st = "saying"
    \/ jobs[m].st = "saying" /\ jobs'[m].st = "rejected"
Blank(s) == \A i \in 1..Len(s) : s[i] = " "
\* the text leaves no prompt: nothing but whitespace, for a mention nothing
\* but whitespace after the first ">"
EmptyPrompt(e) ==
    IF e.type = "app_mention" /\ (\E i \in 1..Len(e.text) : e.text[i] = ">")
    THEN \E n \in 1..Len(e.text) :
            /\ e.text[n] = ">"
            /\ \A h \in 1..(n - 1) : e.text[h] # ">"
            /\ \A i \in (n + 1)..Len(e.text) : e.text[i] = " "
    ELSE Blank(e.text)

\* C11: a message from a sender outside allowed_user_ids gets one say, the
\* not-authorized notice in the message's thread, and no reaction; it is
\* never enqueued, and its handler's steps leave the session store and the
\* queues as they were
C11_UnauthorizedRejected ==
    /\ [](\A m \in JobIds :
            (Handling(m) /\ jobs[m].event.user \notin allowed_user_ids)
                => /\ jobs[m].st = "saying"
                   /\ jobs[m].said = <<[text |-> NotAuthorizedNotice,
                                        thread_ts |-> ThreadOfMessage(jobs[m].event)]>>
                   /\ jobs[m].reacted = <<>>
                   /\ ~Enqueued(m) /\ ~InSomeQueue(m))
    /\ [](\A m \in JobIds : jobs[m].st = "rejected" => ~Enqueued(m) /\ ~InSomeQueue(m))
    /\ [][\A m \in JobIds :
            /\ RejectionStep(m)
                  => sessions' = sessions /\ enqSeq' = enqSeq /\ qobj' = qobj
            /\ jobs[m].st = "rejected" => jobs'[m] = jobs[m]]_vars

\* a reply in a thread by a sender outside the allow-list is being answered
\* while the session store holds an entry
C11_Witness ==
    \E m \in JobIds :
        /\ jobs[m].st = "saying"
        /\ jobs[m].event.user \notin allowed_user_ids
        /\ jobs[m].event.thread_ts # None
        /\ \E k \in Keys : sessions[k] # None

\* C12: a message from an allowed sender whose text leaves no prompt gets one
\* say, the prompt-required notice in the message's thread, and no reaction;
\* it is never enqueued
C12_EmptyPromptRejected ==
    /\ [](\A m \in JobIds :
            (/\ Handling(m)
             /\ jobs[m].event.user \in allowed_user_ids
             /\ EmptyPrompt(jobs[m].event))
                => /\ jobs[m].st = "saying"
                   /\ jobs[m].said = <<[text |-> PromptRequiredNotice,
                                        thread_ts |-> ThreadOfMessage(jobs[m].event)]>>
                   /\ jobs[m].reacted = <<>>
                   /\ ~Enqueued(m) /\ ~InSomeQueue(m))
    /\ [][\A m \in JobIds :
            RejectionStep(m) => enqSeq' = enqSeq /\ qobj' = qobj]_vars

\* an allowed sender's mention followed by whitespace only is being answered
C12_Witness ==
    \E m \in JobIds :
        /\ jobs[m].st = "saying"
        /\ jobs[m].event.user \in allowed_user_ids
        /\ jobs[m].event.type = "app_mention"
        /\ jobs[m].event.text = Mention \o <<" ">>

C14_ThreadDerivation ==
    /\ [](\A m \in JobIds :
            Handling(m)
                => /\ jobs[m].key = <<jobs[m].event.channel,
                                      ThreadOfMessage(jobs[m].event)>>
                   /\ \A i \in 1..Len(jobs[m].said) :
                          jobs[m].said[i].thread_ts = ThreadOfMessage(jobs[m].event))
    /\ [](\A j \in JobIds :
            /\ (Accepted(j) /\ jobs[j].st # "reacting")
                   => j \in Range(enqSeq[jobs[j].key])
            /\ jobs[j].st = "post"
                   => /\ Len(jobs[j].posted) = 1
                      /\ jobs[j].posted[1].channel = jobs[j].key[1]
                      /\ jobs[j].posted[1].thread_ts = jobs[j].key[2])
    /\ [][\A j \in JobIds :
            Accepted(j) => jobs'[j].key = jobs[j].key]_vars

\* a thread gets a reply while a later message of the same thread, itself a
\* reply carrying thread_ts, is being turned down in that thread
C14_Witness ==
    \E m, j \in JobIds :
        /\ jobs[m].st = "saying"
        /\ jobs[m].event.thread_ts # None
        /\ jobs[m].event.ts # jobs[m].event.thread_ts
        /\ jobs[j].st = "post"
        /\ jobs[j].key = jobs[m].key

\* C15: when run_claude returns a non-empty session id the store's entry of
\* the job's key becomes exactly that id, nothing else in the store changes,
\* and the entry is there while the reply is being posted; an empty id leaves
\* the whole store as it was
C15_TokenRecordedBeforePost ==
    /\ [](\A j \in JobIds :
            (jobs[j].st = "post" /\ jobs[j].out = "result" /\ jobs[j].tok # "")
                => sessions[jobs[j].key] = jobs[j].tok)
    /\ [][\A j \in JobIds :
            (jobs[j].st = "exec" /\ jobs'[j].st = "post" /\ jobs'[j].out = "result")
                => IF jobs'[j].tok # ""
                   THEN sessions' = [sessions EXCEPT ![jobs[j].key] = jobs'[j].tok]
                   ELSE sessions' = sessions]_vars

\* a job that resumed session s1 got s2 back: the entry is overwritten while
\* its reply is being posted
C15_Witness ==
    \E j \in JobIds :
        /\ jobs[j].st = "post"
        /\ jobs[j].resume = "s1"
        /\ jobs[j].tok = "s2"
        /\ sessions[jobs[j].key] = "s2"

\* C16: get returns the session id of the last set on its key, None for a
\* key never set; right after a set the entry is the id that was set, and a
\* set of the id the key already has changes nothing
C16_RoundTrip ==
    /\ [](ret.op = "get" => ret.val = recorded[ret.key])
    /\ [](ret.op = "set" => get(sessions, ret.key) = ret.arg)
    /\ [](\A k \in StoreKeys : get(sessions, k) = recorded[k])
    /\ [][\A k \in StoreKeys, id \in StoreIds :
            (get(sessions, k) = id /\ ret'.op = "set" /\ ret'.key = k /\ ret'.arg = id)
                => sessions' = sessions]_vars

\* a get returned the second id set on a key, another key still has none
C16_Witness ==
    /\ ret.op = "get"
    /\ ret.val = "s2"
    /\ \E k \in StoreKeys : k # ret.key /\ sessions[k] = None
    /\ \E k \in StoreKeys : k # ret.key /\ sessions[k] = "s1"

\* C17: a set changes the entry of its own (channel, thread) only, and a get
\* changes no entry
C17_SetFrame ==
    [][/\ ret'.op = "set"
          => \A k \in StoreKeys : k # ret'.key => get(sessions', k) = get(sessions, k)
       /\ ret'.op = "get" => sessions' = sessions
       /\ DOMAIN sessions' = DOMAIN sessions]_vars

\* a set on a key whose channel twin and whose thread twin hold other values
C17_Witness ==
    /\ ret.op = "set"
    /\ sessions[ret.key] = "s1"
    /\ \E k \in StoreKeys : k[1] # ret.key[1] /\ k[2] = ret.key[2] /\ sessions[k] = "s2"
    /\ \E k \in StoreKeys : k[1] = ret.key[1] /\ k[2] # ret.key[2] /\ sessions[k] = None

\* C18: no message event with a subtype gets as far as a notice or a reaction
C18_SubtypeIgnored ==
    \A m \in JobIds : ~(Handling(m) /\ jobs[m].event.subtype # None)

\* C19: a job whose agent call timed out posts something other than the
\* generic unexpected-error notice
C19_TimedOutNotice ==
    \A j \in JobIds :
        (jobs[j].st = "post" /\ jobs[j].exc = "TimeoutError")
            => \A i \in 1..Len(jobs[j].posted) :
                   jobs[j].posted[i].text # UnexpectedErrorNotice

\* C20: a job whose agent call raised CLINotFoundError posts one message, the
\* CLI-not-found notice, to the channel and thread of its key; when the post
\* is over the job is done and its consumer takes the next job of the queue,
\* or cleans up when there is none
C20_CliNotFoundNotice ==
    /\ [](\A j \in JobIds :
            (jobs[j].st = "post" /\ jobs[j].exc = "CLINotFoundError")
                => jobs[j].posted = <<[channel |-> jobs[j].key[1],
                                       thread_ts |-> jobs[j].key[2],
                                       text |-> CliNotFoundNotice]>>)
    /\ [][\A j \in JobIds :
            (jobs[j].st = "exec" /\ jobs'[j].st = "post" /\ jobs'[j].out # "result")
                => jobs'[j].exc \in Excs]_vars
    /\ [][\A j \in JobIds :
            (/\ jobs[j].st = "post" /\ jobs[j].exc = "CLINotFoundError"
             /\ jobs'[j].st # "post")
                => LET t == TaskOf(j)
                       q == qobj[tasks[t].queue]
                   IN /\ jobs'[j].st = "done"
                      /\ tasks[t].st = "running"
                      /\ IF q # <<>>
                         THEN /\ tasks'[t].st = "running"
                              /\ jobs'[Head(q)].st = "exec"
                         ELSE tasks'[t].st = "done"]_vars

\* the CLI-not-found notice is being posted while the next job of the thread
\* waits in the queue
C20_Witness ==
    \E j \in JobIds :
        /\ jobs[j].st = "post"
        /\ jobs[j].exc = "CLINotFoundError"
        /\ qobj[tasks[TaskOf(j)].queue] # <<>>

\* ------------------------------------------------------- failure properties
\* the step ends job j normally: its consumer takes the next job of its queue,
\* or cleans up and finishes when there is none
GoesOn(j) ==
    LET t == TaskOf(j)
        q == qobj[tasks[t].queue]
    IN /\ jobs'[j].st = "done"
       /\ tasks[t].st = "running"
       /\ IF q # <<>>
          THEN /\ tasks'[t].st = "running"
               /\ tasks'[t].cur = Head(q)
               /\ jobs'[Head(q)].st = "exec"
          ELSE tasks'[t].st = "done"
OtherExcs == Excs \ {"CLINotFoundError"}

\* C21: a job whose agent call raised any exception other than
\* CLINotFoundError posts one message, the generic notice, to the channel and
\* thread of its key; no agent call ends a job without that post, no
\* consumer task ever fails, and when the post is over the consumer goes on
C21_GenericNotice ==
    /\ [](\A j \in JobIds :
            (jobs[j].st = "post" /\ jobs[j].exc \in OtherExcs)
                => jobs[j].posted = <<[channel |-> jobs[j].key[1],
                                       thread_ts |-> jobs[j].key[2],
                                       text |-> UnexpectedErrorNotice]>>)
    /\ [](\A t \in JobIds : tasks[t].st # "failed")
    /\ [][\A j \in JobIds :
            (jobs[j].st = "exec" /\ jobs'[j].st # "exec")
                => jobs'[j].st = "post" /\ tasks' = tasks]_vars
    /\ [][\A j \in JobIds :
            (/\ jobs[j].st = "post" /\ jobs[j].exc \in OtherExcs
             /\ jobs'[j].st # "post")
                => GoesOn(j)]_vars

\* the generic notice is being posted while the next job of the thread waits
C21_Witness ==
    \E j \in JobIds :
        /\ jobs[j].st = "post"
        /\ jobs[j].exc = "Exception"
        /\ qobj[tasks[TaskOf(j)].queue] # <<>>

\* C22: the step in which reactions_add fails enqueues the message, once and
\* under its key, and sends no notice; no message is ever enqueued twice
C22_ReactionFailureSwallowed ==
    /\ [][\A m \in JobIds :
            ReactEnd(m, TRUE)
                => /\ ~Enqueued(m)
                   /\ jobs'[m].st = "queued"
                   /\ enqSeq' = [enqSeq EXCEPT ![jobs[m].key] = Append(@, m)]
                   /\ \A i \in JobIds : jobs'[i].said = <<>> \/ jobs'[i].said = jobs[i].said
                   /\ \A i \in JobIds : jobs'[i].posted = jobs[i].posted]_vars
    /\ [](\A m \in JobIds : EnqueueCount(m) <= 1)
    /\ [](\A m \in JobIds : jobs[m].st # "crashed")

\* a reaction is being added for a second message of a thread whose first
\* message went through the same step and waits in the queue
C22_Witness ==
    \E m, i \in JobIds :
        /\ i < m
        /\ jobs[m].st = "reacting"
        /\ jobs[i].st = "queued"
        /\ jobs[i].key = jobs[m].key
        /\ \A h \in JobIds : jobs[h].said = <<>>

\* C23: the step in which chat_postMessage fails ends the job normally: no
\* other post is started, the store stays as it is, with the session id the
\* job recorded still in it, and the consumer goes on
C23_PostFailureSwallowed ==
    [][\A j \in JobIds :
          PostEnd(j, TRUE)
              => /\ GoesOn(j)
                 /\ sessions' = sessions
                 /\ jobs[j].tok # "" => sessions'[jobs[j].key] = jobs[j].tok
                 /\ \A i \in JobIds :
                        jobs'[i].posted = <<>> \/ jobs'[i].posted = jobs[i].posted
                 /\ jobs'[j].posted = <<>>]_vars

\* a reply is being posted by a job that recorded a session id, with the
\* next job of the thread waiting in the queue
C23_Witness ==
    \E j \in JobIds :
        /\ jobs[j].st = "post"
        /\ jobs[j].out = "result"
        /\ jobs[j].tok # ""
        /\ sessions[jobs[j].key] = jobs[j].tok
        /\ qobj[tasks[TaskOf(j)].queue] # <<>>

\* --------------------------------------------------- consumer properties
\* the step is an enqueue call under key k
EnqueueStep(k) == Len(enqSeq'[k]) > Len(enqSeq[k])
\* the tasks the step creates
NewTasks == {t \in JobIds : tasks[t].st = "none" /\ tasks'[t].st # "none"}

\* C24: while job ids last, enqueue can run under every key, whatever is in
\* flight or pending there, and its step is its own: no job is started,
\* finished or otherwise moved by it
C24_EnqueueReturns ==
    /\ [](\A k \in Keys : NextId \in JobIds => ENABLED Enqueue(k))
    /\ [][\A k \in Keys :
            EnqueueStep(k)
                => /\ startSeq' = startSeq
                   /\ \A j \in JobIds : jobs[j].st # "unused" => jobs'[j] = jobs[j]
                   /\ \A t \in JobIds : tasks[t].st # "none" => tasks'[t] = tasks[t]]_vars

\* three jobs were enqueued behind a job that is still running
C24_Witness ==
    \E k \in Keys :
        /\ Len(enqSeq[k]) >= 4
        /\ Len(startSeq[k]) = 1
        /\ jobs[startSeq[k][1]].st = "running"
        /\ Len(qobj[queues[k]]) >= 3

\* C28: an enqueue under a key with no registered consumer, or whose
\* registered consumer task has finished, creates one task and registers it
\* for the key; an enqueue under a key whose registered consumer has not
\* finished creates none and only appends the job to the key's queue
C28_ConsumerStartedWhenNeeded ==
    [][\A k \in Keys :
          EnqueueStep(k)
              => LET j == enqSeq'[k][Len(enqSeq'[k])] IN
                 /\ \A t \in JobIds : tasks[t].st # "none" => tasks'[t] = tasks[t]
                 /\ IF consumers[k] = 0 \/ tasks[consumers[k]].st \in {"done", "failed"}
                    THEN /\ Cardinality(NewTasks) = 1
                         /\ consumers'[k] \in NewTasks
                         /\ tasks'[consumers'[k]].st = "created"
                         /\ tasks'[consumers'[k]].key = k
                    ELSE /\ NewTasks = {}
                         /\ consumers' = consumers
                         /\ queues' = queues
                         /\ qobj' = [qobj EXCEPT ![queues[k]] = Append(@, j)]]_vars

\* a key whose consumer ended without cleanup has a new consumer, created by
\* an enqueue, and two jobs pending
C28_Witness ==
    \E k \in Keys, t \in JobIds :
        /\ tasks[t].key = k
        /\ tasks[t].st = "failed"
        /\ consumers[k] # t
        /\ consumers[k] # 0
        /\ tasks[consumers[k]].st = "created"
        /\ Len(qobj[queues[k]]) >= 2

\* C29: a key whose queue holds a job has a registered consumer task that has
\* not finished and that works on this queue, and every job waiting to run
\* sits in the registered queue of its key
C29_NoStrandedJob ==
    /\ \A k \in Keys :
          (queues[k] # 0 /\ qobj[queues[k]] # <<>>)
              => /\ consumers[k] # 0
                 /\ tasks[consumers[k]].st \in {"created", "running"}
                 /\ tasks[consumers[k]].st = "running"
                        => tasks[consumers[k]].queue = queues[k]
    /\ \A j \in JobIds :
          jobs[j].st = "queued"
              => /\ queues[jobs[j].key] # 0
                 /\ j \in Range(qobj[queues[jobs[j].key]])

\* a job raised and two jobs of its key are pending behind the one its
\* consumer went on with
C29_Witness ==
    \E k \in Keys :
        /\ Len(startSeq[k]) = 2
        /\ jobs[startSeq[k][1]].st = "raised"
        /\ jobs[startSeq[k][2]].st = "running"
        /\ Len(qobj[queues[k]]) = 2

\* C30: an enqueue under a key whose consumer ended without cleanup appends
\* to the queue the key already has and registers a new consumer; a consumer
\* that starts takes the oldest job of the key's queue; so the jobs not yet
\* started are always the tail of the key's enqueue order, and no job runs
\* twice
PendingOf(k) == IF queues[k] = 0 THEN <<>> ELSE qobj[queues[k]]
C30_LeftoversFirst ==
    /\ [][\A k \in Keys :
            (/\ EnqueueStep(k)
             /\ queues[k] # 0
             /\ consumers[k] # 0 /\ tasks[consumers[k]].st = "failed")
                => /\ queues'[k] = queues[k]
                   /\ qobj'[queues[k]] =
                          Append(qobj[queues[k]], enqSeq'[k][Len(enqSeq'[k])])
                   /\ consumers'[k] \in NewTasks]_vars
    /\ [][\A t \in JobIds :
            (tasks[t].st = "created" /\ tasks'[t].st = "running")
                => /\ tasks'[t].queue = queues[tasks[t].key]
                   /\ tasks'[t].cur = Head(qobj[queues[tasks[t].key]])]_vars
    /\ [](\A k \in Keys :
            /\ Len(startSeq[k]) <= Len(enqSeq[k])
            /\ PendingOf(k) = SubSeq(enqSeq[k], Len(startSeq[k]) + 1, Len(enqSeq[k]))
            /\ startSeq[k] = SubSeq(enqSeq[k], 1, Len(startSeq[k])))
    /\ [](\A j \in JobIds : jobs[j].runs <= 1)

\* the consumer started after one that ended without cleanup is running a
\* job left over from before, with the newly enqueued one behind it
C30_Witness ==
    \E k \in Keys, t0, t1 \in JobIds :
        /\ tasks[t0].key = k /\ tasks[t0].st = "failed"
        /\ tasks[t1].key = k /\ tasks[t1].st = "running"
        /\ t0 < t1
        /\ tasks[t1].cur < t1
        /\ t1 \in Range(qobj[queues[k]])

\* ------------------------------------------------------ function properties
Formatted == ret.op = "format_response"
FirstChars(seq, n) == [i \in 1..n |-> seq[i]]
Plain(seq) == \A i \in 1..Len(seq) : seq[i] # "*"
EndsWith(seq, suffix) ==
    /\ Len(seq) >= Len(suffix)
    /\ SubSeq(seq, Len(seq) - Len(suffix) + 1, Len(seq)) = suffix
HasItem(seq, item) == \E i \in 1..Len(seq) : seq[i] = item

\* C25: for a result that is not an error, an output longer than max_length
\* is formatted as its first max_length characters followed by the marker,
\* and an output of at most max_length characters, of exactly max_length
\* too, as the whole output without the marker; this is what the converter
\* is given, and what comes out when the output has no markup
C25_TruncationAtLimit ==
    Formatted /\ ~ret.arg.result.is_error
        => LET output == ret.arg.result.output
               max_length == ret.arg.max_length
               expected == IF Len(output) > max_length
                           THEN FirstChars(output, max_length) \o TruncationMarker
                           ELSE output
           IN /\ ret.val = convert(expected)
              /\ Plain(output) => ret.val = expected
              /\ Plain(output) =>
                    (HasItem(ret.val, TruncationMarker[1]) <=> Len(output) > max_length)

\* a plain output one character longer than the limit was formatted
C25_Witness ==
    /\ Formatted /\ ~ret.arg.result.is_error
    /\ Plain(ret.arg.result.output)
    /\ ret.arg.max_length = 3
    /\ Len(ret.arg.result.output) = 4
    /\ EndsWith(ret.val, TruncationMarker)

\* C26: for a result that is an error, the formatted text is the error
\* block around the first max_length characters of the output, whatever
\* the output's length, and the marker is nowhere in it
C26_ErrorBlock ==
    Formatted /\ ret.arg.result.is_error
        => LET output == ret.arg.result.output
               max_length == ret.arg.max_length
               kept == IF Len(output) > max_length
                       THEN FirstChars(output, max_length)
                       ELSE output
           IN /\ ret.val = ErrorOpen \o kept \o ErrorClose
              /\ ~HasItem(ret.val, TruncationMarker[1])

\* an error output longer than the limit was formatted
C26_Witness ==
    /\ Formatted /\ ret.arg.result.is_error
    /\ Len(ret.arg.result.output) > ret.arg.max_length
    /\ ret.arg.max_length >= 1
    /\ EndsWith(ret.val, ErrorClose)

\* C27: for a stream with a result message, run_claude returns the session
\* id of the last result message when that id is not empty, whatever an
\* earlier init message carried; it returns another id only when the last
\* result message's id is empty, and then, for a stream of init messages
\* followed by that one result message, the id of the last init message
Ran == ret.op = "run_claude"
ResultIndexes(ms) == {i \in 1..Len(ms) : ms[i].type = "result"}
LastResult(ms) == CHOOSE i \in ResultIndexes(ms) : \A h \in ResultIndexes(ms) : h <= i
C27_ResultIdWins ==
    (Ran /\ ResultIndexes(ret.arg) # {})
        => LET ms == ret.arg
               r == LastResult(ms)
           IN /\ ~ret.val.fallback
              /\ ms[r].session_id # "" => ret.val.session_id = ms[r].session_id
              /\ ret.val.session_id # ms[r].session_id => ms[r].session_id = ""
              /\ (/\ ms[r].session_id = ""
                  /\ r = Len(ms) /\ r >= 2
                  /\ \A i \in 1..(r - 1) : ms[i].type # "result"
                  /\ ms[r - 1].type = "system")
                     => ret.val.session_id = ms[r - 1].session_id

\* an init message with one id was followed by a result message with another
C27_Witness ==
    /\ Ran
    /\ \E i, r \in 1..Len(ret.arg) :
          /\ i < r
          /\ ret.arg[i] = InitMessage("s1")
          /\ ret.arg[r] = ResultMessage("s2", FALSE)
          /\ r = LastResult(ret.arg)
    /\ ret.val.session_id = "s2"

\* ------------------------------------------------------ store properties
\* job j is posting the notice of a failed agent call
Failing(j) == jobs[j].st = "post" /\ jobs[j].exc # ""

\* C31: a job whose agent call raised, CLINotFoundError or any other
\* exception, does not touch the session store: the step in which the call
\* raises and the step in which the notice's post ends leave the whole store
\* alone, no step taken meanwhile changes the entry of the job's key, and
\* while the notice is posted that entry is still what the job looked up
\* when it started
C31_RaiseLeavesStore ==
    /\ [](\A j \in JobIds :
            Failing(j) => StoreEntry(jobs[j].key) = jobs[j].resume)
    /\ [][\A j \in JobIds :
            (jobs[j].st = "exec" /\ jobs'[j].st = "post" /\ jobs'[j].exc # "")
                => sessions' = sessions]_vars
    /\ [][\A j \in JobIds :
            (Failing(j) /\ jobs'[j].st # "post")
                => sessions' = sessions /\ jobs'[j].st = "done"]_vars
    /\ [][\A j \in JobIds :
            (Failing(j) \/ Failing(j)')
                => sessions'[jobs[j].key] = sessions[jobs[j].key]]_vars

\* the agent call of a job that resumed session s1 raised; the key's entry
\* is still s1 while the notice is posted
C31_Witness ==
    \E j \in JobIds :
        /\ Failing(j)
        /\ jobs[j].resume = "s1"
        /\ sessions[jobs[j].key] = "s1"

\* job j is posting a result that the agent flagged as an error and that
\* came with a session id
ErrorWithToken(j) ==
    /\ jobs[j].st = "post" /\ jobs[j].out = "result"
    /\ jobs[j].is_error /\ jobs[j].tok # ""
\* the result of a stream that ends without a result message
Fallback(id) == [fallback |-> TRUE, is_error |-> TRUE, session_id |-> id]

\* C32: a stream without a result message makes run_claude return the
\* fallback error result with the init message's session id, and that is
\* one of the results a job can get; when a job gets a result flagged as an
\* error with a non-empty session id, the store's entry of its key becomes
\* that id and stays so while the reply is posted, and the job of the key
\* that runs next resumes with it
C32_ErrorResultRecorded ==
    /\ [](\A id \in SessionIds :
            /\ run_claude(<<InitMessage(id), OtherMessage>>) = Fallback(id)
            /\ Fallback(id) \in ClaudeResults)
    /\ [](\A j \in JobIds :
            ErrorWithToken(j)
                => sessions[jobs[j].key] = jobs[j].tok /\ recorded[jobs[j].key] = jobs[j].tok)
    /\ [][\A j \in JobIds :
            (jobs[j].st = "exec" /\ ErrorWithToken(j)')
                => sessions' = [sessions EXCEPT ![jobs[j].key] = jobs'[j].tok]]_vars
    /\ [][\A j \in JobIds :
            (ErrorWithToken(j) /\ jobs'[j].st # "post"
             /\ qobj[tasks[TaskOf(j)].queue] # <<>>)
                => LET n == Head(qobj[tasks[TaskOf(j)].queue])
                   IN jobs'[n].st = "exec" /\ jobs'[n].resume = jobs[j].tok]_vars
    /\ [](\A n \in JobIds :
            jobs[n].st = "exec" => jobs[n].resume = recorded[jobs[n].key])

\* a job that resumed session s1 got an error result with session s2: the
\* entry is s2 while the reply is posted and the next job of the key waits
C32_Witness ==
    \E j \in JobIds :
        /\ ErrorWithToken(j)
        /\ jobs[j].resume = "s1"
        /\ jobs[j].tok = "s2"
        /\ sessions[jobs[j].key] = "s2"
        /\ qobj[tasks[TaskOf(j)].queue] # <<>>

\* ------------------------------------------------------- reply properties
\* the key under which job j was enqueued
EnqueuedUnder(j) == CHOOSE k \in Keys : j \in Range(enqSeq[k])
\* the texts _run_claude posts
Replies == {FormattedResponse, CliNotFoundNotice, UnexpectedErrorNotice}

\* C33: a job that a consumer runs ends its agent call by starting one
\* chat_postMessage, whose text is the formatted result, the CLI-not-found
\* notice or the generic notice and whose channel and thread are those of
\* the key the job was enqueued under; the job makes no other post: what it
\* posts does not change while the call is in flight, the job is done when
\* the call is over, and no job is run a second time
C33_OnePostToKey ==
    /\ [](\A j \in JobIds :
            jobs[j].st = "post"
                => /\ Len(jobs[j].posted) = 1
                   /\ jobs[j].posted[1].text \in Replies
                   /\ Enqueued(j)
                   /\ <<jobs[j].posted[1].channel, jobs[j].posted[1].thread_ts>>
                          = EnqueuedUnder(j))
    /\ [](\A j \in JobIds : jobs[j].st # "post" => jobs[j].posted = <<>>)
    /\ [](\A j \in JobIds : jobs[j].runs <= 1)
    /\ [][\A j \in JobIds :
            /\ (jobs[j].st = "exec" /\ jobs'[j].st # "exec") => jobs'[j].st = "post"
            /\ (jobs[j].st = "post" /\ jobs'[j].st = "post")
                  => jobs'[j].posted = jobs[j].posted
            /\ (jobs[j].st = "post" /\ jobs'[j].st # "post") => jobs'[j].st = "done"
            /\ jobs[j].st = "done" => jobs'[j].st = "done"]_vars

\* two jobs of different threads are posting at the same time, one its
\* result and the other a notice
C33_Witness ==
    \E i, j \in JobIds :
        /\ jobs[i].st = "post" /\ jobs[j].st = "post"
        /\ jobs[i].key # jobs[j].key
        /\ jobs[i].posted[1].text = FormattedResponse
        /\ jobs[j].posted[1].text = UnexpectedErrorNotice

\* the handler of message m, from a sender outside allowed_user_ids and with
\* a text that leaves no prompt, is at work
UnauthorizedAndEmpty(m) ==
    /\ Handling(m)
    /\ jobs[m].event.user \notin allowed_user_ids
    /\ EmptyPrompt(jobs[m].event)

\* C34: a message from a sender outside allowed_user_ids whose text leaves
\* no prompt gets one say, the not-authorized notice, and its handler ends
\* with the end of that say: the prompt-required notice is never sent for it
C34_AuthorizationFirst ==
    /\ [](\A m \in JobIds :
            UnauthorizedAndEmpty(m)
                => /\ jobs[m].st = "saying"
                   /\ Len(jobs[m].said) = 1
                   /\ jobs[m].said[1].text = NotAuthorizedNotice
                   /\ jobs[m].said[1].text # PromptRequiredNotice)
    /\ [][\A m \in JobIds :
            UnauthorizedAndEmpty(m)
                => \/ jobs'[m] = jobs[m]
                   \/ jobs'[m].st = "rejected" /\ jobs'[m].said = <<>>]_vars
    /\ [][\A m \in JobIds : jobs[m].st = "rejected" => jobs'[m] = jobs[m]]_vars

\* a direct message of blanks from a sender outside the allow-list is being
\* answered
C34_Witness ==
    \E m \in JobIds :
        /\ UnauthorizedAndEmpty(m)
        /\ jobs[m].event.type = "message"
        /\ jobs[m].event.text = <<" ">>
        /\ jobs[m].said # <<>>

\* C35: a key that has an entry in the session store has one after every
\* step of the bot, whether a job returns, raises or ends its post, or a
\* consumer cleans up after the last job of its queue
C35_EntriesStay ==
    [][\A k \in StoreKeys : sessions[k] # None => sessions'[k] # None]_vars

\* the key's queue and consumer are gone after two jobs, and its entry is
\* still there while a job of another key has written its own
C35_Witness ==
    \E k, h \in Keys :
        /\ k # h
        /\ sessions[k] # None /\ sessions[h] # None
        /\ Len(startSeq[k]) >= 2
        /\ queues[k] = 0 /\ consumers[k] = 0

\* C36: no entry of the session store is the empty string
C36_NoEmptyToken ==
    \A k \in StoreKeys : sessions[k] # ""

\* a job of a key that has an entry got a result without a session id, and
\* the entry is still the old id while the reply is posted
C36_Witness ==
    \E j \in JobIds :
        /\ jobs[j].st = "post" /\ jobs[j].out = "result"
        /\ jobs[j].tok = ""
        /\ jobs[j].resume = "s1"
        /\ sessions[jobs[j].key] = "s1"

TypeOK ==
    /\ \A j \in JobIds : jobs[j].runs \in 0..2
    /\ \A k \in Keys : queues[k] \in 0..MaxJobs /\ consumers[k] \in 0..MaxJobs

====
